---- MODULE Spec2Model ----
(***************************************************************************)
(* Model of the ingress facade of crane (golang/pkg/crane/k8s/ingress.go): *)
(* deployIngress builds an Ingress apply configuration from the caller's   *)
(* DeployIngressOptions and submits it with a server-side Apply;           *)
(* deleteIngress removes an Ingress by namespace and name.                 *)
(*                                                                         *)
(* Go values are modelled as follows.  A string is a TLA+ string.  A       *)
(* pointer or interface that may be nil is a sequence of length 0 (nil) or *)
(* 1.  A map[string]string is a function from its keys to its values.  A  *)
(* slice is a record [arr, len]: arr is the backing array from the slice's *)
(* first element to its capacity, len the slice's length.  An error is a   *)
(* string, NoError standing for the nil error.                             *)
(***************************************************************************)
EXTENDS Integers, Sequences, FiniteSets, TLC

VARIABLES
    appConfig,  \* ing.appConfig: the process-wide configuration
    options,    \* the caller's DeployIngressOptions object, as it is in memory now
    original,   \* the same object as the caller built it (never assigned after Init)
    store,      \* the cluster's ingress store in options.namespace: name -> owner
    last        \* what the latest call did: remote calls, built manifest, return value

vars == <<appConfig, options, original, store, last>>

----------------------------------------------------------------------------
(* Bounds of the model *)

MaxPorts == 2      \* longest ports list a caller builds
MaxHeaders == 2    \* longest allowedHeaders list a caller builds
MaxSpare == 5      \* largest spare capacity (cap - len) of the allowedHeaders slice

----------------------------------------------------------------------------
(* Values *)

clusterIssuerDefault == "letsencrypt-prod"

NoError == "nil"
ErrNilOptions == "ingress deployment is nil"
ErrEmptyPorts == "empty ports, nothing to expose"
ErrNoDomain == "no ingress domain provided in deploy request or configuration"
ErrClientSet == "clientset: cannot load cluster config"
ErrConflict == "Conflict"
ErrNotFound == "NotFound"
ErrRemote == "Unauthorized"

EmptyMap == [k \in {} |-> ""]

\* m[k] = v of a Go map
Put(m, k, v) == [x \in DOMAIN m \cup {k} |-> IF x = k THEN v ELSE m[x]]

\* maps.Copy(dst, src): every key of src is written into dst
MapsCopy(dst, src) == [x \in DOMAIN dst \cup DOMAIN src |-> IF x \in DOMAIN src THEN src[x] ELSE dst[x]]

\* strings.Join(elems, sep)
RECURSIVE Join(_, _)
Join(elems, sep) ==
    IF Len(elems) = 0 THEN ""
    ELSE IF Len(elems) = 1 THEN elems[1]
    ELSE elems[1] \o sep \o Join(Tail(elems), sep)

\* util.JoinV(separator, items...): the items joined with the separator
JoinV(separator, items) == Join(items, separator)

\* the elements of a slice
Elems(s) == SubSeq(s.arr, 1, s.len)

\* append(s, xs...): in place when the capacity suffices, else into a new array
FitsCapacity(s, xs) == s.len + Len(xs) <= Len(s.arr)
AppendSlice(s, xs) ==
    IF FitsCapacity(s, xs)
    THEN [arr |-> [i \in 1..Len(s.arr) |->
                      IF i > s.len /\ i <= s.len + Len(xs) THEN xs[i - s.len] ELSE s.arr[i]],
          len |-> s.len + Len(xs)]
    ELSE [arr |-> Elems(s) \o xs, len |-> s.len + Len(xs)]

----------------------------------------------------------------------------
(* Annotation policy *)

extraHeaders == <<"X-Forwarded-For", "X-Forwarded-Host", "X-Forwarded-Server", "X-Real-IP", "X-Requested-With">>

\* the traefik strategy, were it to honour uploadLimit
getTraefikHonouringUploadLimit(opts) ==
    LET a0 == Put(EmptyMap, "kubernetes.io/ingress.class", "traefik")
        a1 == IF opts.tls
              THEN Put(Put(Put(Put(Put(a0,
                       "traefik.ingress.kubernetes.io/router.entrypoints", "web,websecure"),
                       "acme.cert-manager.io/http01-ingress-class", "traefik"),
                       "traefik.ingress.kubernetes.io/router.tls", "true"),
                       "kubernetes.io/tls-acme", "true"),
                       "cert-manager.io/cluster-issuer", clusterIssuerDefault)
              ELSE Put(a0, "traefik.ingress.kubernetes.io/router.entrypoints", "web")
    IN  IF opts.uploadLimit # ""
        THEN Put(a1, "nginx.ingress.kubernetes.io/proxy-body-size", opts.uploadLimit)
        ELSE a1

getTraefikHeadersAnnotations(opts) ==
    LET a0 == Put(EmptyMap, "kubernetes.io/ingress.class", "traefik")
    IN  IF opts.tls
        THEN LET a1 == Put(a0, "traefik.ingress.kubernetes.io/router.entrypoints", "web,websecure")
                 a2 == Put(a1, "acme.cert-manager.io/http01-ingress-class", "traefik")
                 a3 == Put(a2, "traefik.ingress.kubernetes.io/router.tls", "true")
                 a4 == Put(a3, "kubernetes.io/tls-acme", "true")
             IN  Put(a4, "cert-manager.io/cluster-issuer", clusterIssuerDefault)
        ELSE Put(a0, "traefik.ingress.kubernetes.io/router.entrypoints", "web")

\* `headers` with the forwarding headers put first instead of appended
nginxHeadersExtraFirst(opts) ==
    LET h0 == IF opts.allowedHeaders.len > 0 THEN opts.allowedHeaders
              ELSE [arr |-> <<>>, len |-> 0]
    IN  IF opts.proxyHeaders
        THEN [arr |-> extraHeaders \o Elems(h0), len |-> h0.len + Len(extraHeaders)]
        ELSE h0

\* the local slice `headers` of getNginxHeadersAnnotations when it is joined
nginxHeaders(opts) ==
    LET h0 == IF opts.allowedHeaders.len > 0 THEN opts.allowedHeaders
              ELSE [arr |-> <<>>, len |-> 0]
    IN  IF opts.proxyHeaders THEN AppendSlice(h0, extraHeaders) ELSE h0

getNginxHeadersAnnotations(opts) ==
    LET a0 == IF opts.tls
              THEN Put(Put(EmptyMap, "kubernetes.io/tls-acme", "true"),
                       "cert-manager.io/cluster-issuer", clusterIssuerDefault)
              ELSE EmptyMap
        a1 == Put(a0, "kubernetes.io/ingress.class", "nginx")
        headers == nginxHeaders(opts)
        a2 == IF opts.proxyHeaders
              THEN Put(Put(Put(a1, "nginx.ingress.kubernetes.io/enable-cors", "true"),
                           "nginx.ingress.kubernetes.io/proxy-buffering", "on"),
                       "nginx.ingress.kubernetes.io/proxy-buffer-size", "256k")
              ELSE a1
        a3 == IF headers.len > 0
              THEN Put(a2, "nginx.ingress.kubernetes.io/cors-allow-headers", Join(Elems(headers), ", "))
              ELSE a2
    IN  IF opts.uploadLimit # ""
        THEN Put(a3, "nginx.ingress.kubernetes.io/proxy-body-size", opts.uploadLimit)
        ELSE a3

getIngressAnnotations(opts) ==
    IF opts.traefik THEN getTraefikHeadersAnnotations(opts)
    ELSE getNginxHeadersAnnotations(opts)

\* the caller's allowedHeaders slice once getIngressAnnotations has run: the
\* slice header is the caller's own, the backing array is shared with `headers`
allowedHeadersAfter(opts) ==
    IF ~opts.traefik /\ opts.allowedHeaders.len > 0 /\ opts.proxyHeaders
       /\ FitsCapacity(opts.allowedHeaders, extraHeaders)
    THEN [arr |-> nginxHeaders(opts).arr, len |-> opts.allowedHeaders.len]
    ELSE opts.allowedHeaders

\* the merge with the arguments of maps.Copy swapped: generated values win
mergedAnnotationsGeneratedWin(opts) == MapsCopy(opts.annotations, getIngressAnnotations(opts))

\* annot after maps.Copy(annot, options.annotations)
mergedAnnotations(opts) == MapsCopy(getIngressAnnotations(opts), opts.annotations)

\* labels after maps.Copy(labels, options.labels)
mergedLabels(opts) == MapsCopy(EmptyMap, opts.labels)

----------------------------------------------------------------------------
(* Host resolution, TLS block, manifest *)

\* the root with the configured domain tried before the request's ingressHost
ingressRootConfigFirst(opts, cfg) ==
    IF cfg.IngressRootDomain # "" THEN <<cfg.IngressRootDomain>>
    ELSE IF opts.ingressHost # "" THEN <<opts.ingressHost>>
    ELSE <<>>

\* the ingressRoot chosen by deployIngress: <<root>>, or <<>> when there is none
ingressRoot(opts, cfg) ==
    IF opts.ingressHost # "" THEN <<opts.ingressHost>>
    ELSE IF cfg.IngressRootDomain # "" THEN <<cfg.IngressRootDomain>>
    ELSE <<>>

\* the ingressPath (the rule's host) built from the root
ingressPath(opts, root) ==
    IF opts.ingressName # "" THEN JoinV(".", <<opts.ingressName, root>>)
    ELSE JoinV(".", <<opts.containerName, opts.namespace, root>>)

\* getTLSConfig ignoring its enabled flag
getTLSConfigAlways(path, containerName, enabled) ==
    <<[hosts |-> <<path>>, secretName |-> JoinV("-", <<containerName, "tls">>)]>>

\* getTLSConfig: nil (<<>>) unless enabled
getTLSConfig(path, containerName, enabled) ==
    IF enabled
    THEN <<[hosts |-> <<path>>, secretName |-> JoinV("-", <<containerName, "tls">>)]>>
    ELSE <<>>

\* the spec with the last port of the list as the backend port
ingressSpecLastPort(opts, path) ==
    LET tlsConf == getTLSConfig(path, opts.containerName, opts.tls)
    IN  [rules |-> <<[host |-> path,
                      paths |-> <<[path |-> "/",
                                   pathType |-> "ImplementationSpecific",
                                   serviceName |-> opts.containerName,
                                   servicePort |-> opts.ports[Len(opts.ports)]]>>]>>,
         tls |-> IF tlsConf # <<>> THEN tlsConf ELSE <<>>]

\* spec := netv1.IngressSpec().WithRules(...), then WithTLS when tlsConf is not nil
ingressSpec(opts, path) ==
    LET tlsConf == getTLSConfig(path, opts.containerName, opts.tls)
    IN  [rules |-> <<[host |-> path,
                      paths |-> <<[path |-> "/",
                                   pathType |-> "ImplementationSpecific",
                                   serviceName |-> opts.containerName,
                                   servicePort |-> opts.ports[1]]>>]>>,
         tls |-> IF tlsConf # <<>> THEN tlsConf ELSE <<>>]

\* applyConfig: the IngressApplyConfiguration handed to Apply.  ObjectMeta gets
\* WithName, WithAnnotations and WithLabels only: its Namespace stays nil.
applyConfiguration(opts, path) ==
    [kind |-> "Ingress",
     apiVersion |-> "networking.k8s.io/v1",
     name |-> <<opts.containerName>>,
     namespace |-> <<>>,
     annotations |-> mergedAnnotations(opts),
     labels |-> mergedLabels(opts),
     spec |-> ingressSpec(opts, path)]

----------------------------------------------------------------------------
(* The remote store, as the typed client presents it *)

Absent == "absent"
OtherManager == "other-manager"

\* ing.getIngressClient(namespace): (nil, err) when GetClientSet fails, else the
\* ingress client of that namespace
getIngressClient(namespace, cfg, acquireFails) ==
    IF acquireFails THEN [client |-> <<>>, err |-> ErrClientSet]
    ELSE [client |-> <<[namespace |-> namespace]>>, err |-> NoError]

\* client.Apply: a server-side apply of the manifest under a field manager.  An
\* object whose fields another manager owns is taken over only with Force.  On a
\* remote error the typed client hands back the empty object it allocated for
\* the response together with the error.
clientApply(st, manifest, applyOptions, fault) ==
    LET name == manifest.name[1]
    IN  IF fault # NoError
        THEN [obj |-> <<[name |-> ""]>>, err |-> fault, store |-> st]
        ELSE IF st[name] = OtherManager /\ ~applyOptions.Force
        THEN [obj |-> <<[name |-> ""]>>, err |-> ErrConflict, store |-> st]
        ELSE [obj |-> <<[name |-> name]>>, err |-> NoError,
              store |-> [st EXCEPT ![name] = applyOptions.FieldManager]]

\* client.Delete: removal by name; a missing object is a NotFound error
clientDelete(st, name, fault) ==
    IF fault # NoError THEN [err |-> fault, store |-> st]
    ELSE IF st[name] = Absent THEN [err |-> ErrNotFound, store |-> st]
    ELSE [err |-> NoError, store |-> [st EXCEPT ![name] = Absent]]

----------------------------------------------------------------------------
(* The two operations.  Each yields what the call did:                     *)
(*   ret          the error value returned (NoError for nil)               *)
(*   panicked     the call ended in a panic instead of returning           *)
(*   acquired     the errors of the getIngressClient calls made, in order  *)
(*   applyCalls   the Apply requests made, in order                        *)
(*   deleteCalls  the Delete requests made, in order                       *)
(*   built        the apply configuration assembled (<<>> when none was)   *)
(*   generated    annot as getIngressAnnotations returned it               *)
(*   remoteErr    the errors Apply or Delete returned, in order            *)
(*   store        the store after the call                                 *)
(*   allowedHeaders  the caller's allowedHeaders slice after the call      *)

Outcome(op, st, allowed) ==
    [op |-> op, ret |-> NoError, panicked |-> FALSE, acquired |-> <<>>,
     applyCalls |-> <<>>, deleteCalls |-> <<>>, built |-> <<>>, generated |-> <<>>,
     remoteErr |-> <<>>, store |-> st, allowedHeaders |-> allowed]

\* the Apply call repeated with Force after a conflict
applyAndRetryOnConflict(out, got, applyConfig, cfg, st, fault) ==
    IF got.client = <<>>
    THEN [out EXCEPT !.panicked = TRUE]
    ELSE LET applyOptions == [FieldManager |-> cfg.FieldManagerName,
                              Force |-> cfg.ForceOnConflicts]
             forced == [applyOptions EXCEPT !.Force = TRUE]
             request == [namespace |-> got.client[1].namespace,
                         manifest |-> applyConfig,
                         options |-> applyOptions]
             resp == clientApply(st, applyConfig, applyOptions, fault)
             again == clientApply(st, applyConfig, forced, fault)
         IN  IF resp.err = ErrConflict
             THEN [out EXCEPT !.applyCalls = <<request, [request EXCEPT !.options = forced]>>,
                              !.remoteErr = <<resp.err, again.err>>,
                              !.store = again.store,
                              !.ret = again.err]
             ELSE [out EXCEPT !.applyCalls = <<request>>,
                              !.remoteErr = <<resp.err>>,
                              !.store = resp.store,
                              !.ret = resp.err]

\* the end of deployIngress: the Apply call on the acquired client, the
\* log of its error and the return
applyAndReturn(out, got, applyConfig, cfg, st, fault) ==
    IF got.client = <<>>
    THEN \* method call on a nil interface value
         [out EXCEPT !.panicked = TRUE]
    ELSE LET applyOptions == [FieldManager |-> cfg.FieldManagerName,
                              Force |-> cfg.ForceOnConflicts]
             request == [namespace |-> got.client[1].namespace,
                         manifest |-> applyConfig,
                         options |-> applyOptions]
             resp == clientApply(st, applyConfig, applyOptions, fault)
             called == [out EXCEPT !.applyCalls = <<request>>,
                                   !.remoteErr = <<resp.err>>,
                                   !.store = resp.store]
         IN  IF resp.err # NoError /\ resp.obj = <<>>
             THEN \* ingress.ObjectMeta.Name read through a nil pointer
                  [called EXCEPT !.panicked = TRUE]
             ELSE [called EXCEPT !.ret = resp.err]

deployIngress(optsPtr, cfg, st, acquireFails, fault) ==
    IF optsPtr = <<>>
    THEN [Outcome("deploy", st, <<>>) EXCEPT !.ret = ErrNilOptions]
    ELSE LET opts == optsPtr[1]
             got == getIngressClient(opts.namespace, cfg, acquireFails)
             out0 == [Outcome("deploy", st, <<opts.allowedHeaders>>)
                         EXCEPT !.acquired = <<got.err>>]
             root == ingressRoot(opts, cfg)
         IN  IF Len(opts.ports) = 0 THEN [out0 EXCEPT !.ret = ErrEmptyPorts]
             ELSE IF root = <<>> THEN [out0 EXCEPT !.ret = ErrNoDomain]
             ELSE LET path == ingressPath(opts, root[1])
                      applyConfig == applyConfiguration(opts, path)
                      out1 == [out0 EXCEPT !.built = <<applyConfig>>,
                                           !.generated = <<getIngressAnnotations(opts)>>,
                                           !.allowedHeaders = <<allowedHeadersAfter(opts)>>]
                  IN  applyAndReturn(out1, got, applyConfig, cfg, st, fault)

deleteIngress(namespace, name, cfg, st, acquireFails, fault) ==
    LET got == getIngressClient(namespace, cfg, acquireFails)
        out0 == [Outcome("delete", st, <<>>) EXCEPT !.acquired = <<got.err>>]
    IN  IF got.err # NoError
        THEN \* panic(err)
             [out0 EXCEPT !.panicked = TRUE]
        ELSE LET resp == clientDelete(st, name, fault)
             IN  [out0 EXCEPT !.deleteCalls = <<[namespace |-> got.client[1].namespace,
                                                 name |-> name]>>,
                              !.remoteErr = <<resp.err>>,
                              !.store = resp.store,
                              !.ret = resp.err]

----------------------------------------------------------------------------
(* The callers' inputs *)

Namespaces == {"prod", "dev"}
ContainerNames == {"web", "api"}
IngressNames == {"", "pub"}
IngressHosts == {"", "apps.example.com"}
RootDomains == {"", "example.com"}
UploadLimits == {"", "16m"}
PortNumbers == {80, 8443}
HeaderNames == {"X-Custom", "Authorization"}
FieldManagerName == "crane"
Faults == {NoError, ErrRemote}

SeqsUpTo(S, n) == UNION {[1..k -> S] : k \in 0..n}

\* what the caller keeps in the array behind the slice, past its length
SpareSlot(i) == IF i % 2 = 0 THEN "Accept" ELSE "Origin"

\* slices of every length up to MaxHeaders, with no, too little or enough spare
\* capacity for the five forwarding headers
Slices ==
    {[arr |-> [i \in 1..(Len(e) + spare) |-> IF i <= Len(e) THEN e[i] ELSE SpareSlot(i)],
      len |-> Len(e)] :
        e \in SeqsUpTo(HeaderNames, MaxHeaders), spare \in {0, MaxSpare - 1, MaxSpare}}

UserAnnotations ==
    {EmptyMap,
     Put(EmptyMap, "team", "core"),
     Put(EmptyMap, "cert-manager.io/cluster-issuer", "letsencrypt-staging"),
     Put(Put(EmptyMap, "kubernetes.io/ingress.class", "internal"),
         "nginx.ingress.kubernetes.io/cors-allow-headers", "*")}

UserLabels == {EmptyMap, Put(EmptyMap, "app", "web")}

Configurations ==
    [IngressRootDomain : RootDomains, FieldManagerName : {FieldManagerName},
     ForceOnConflicts : BOOLEAN]

BaseOptions ==
    [namespace |-> "prod", containerName |-> "web", ingressName |-> "",
     ingressHost |-> "", uploadLimit |-> "", ports |-> <<80>>,
     tls |-> FALSE, proxyHeaders |-> FALSE,
     allowedHeaders |-> [arr |-> <<>>, len |-> 0],
     labels |-> EmptyMap, annotations |-> EmptyMap, traefik |-> FALSE]

\* callers that vary what the host and the TLS block are resolved from
HostScenarios ==
    {[options |-> [BaseOptions EXCEPT !.namespace = ns, !.containerName = cn,
                                      !.ingressName = iname, !.ingressHost = ihost,
                                      !.tls = tls],
      config |-> cfg, owner |-> Absent] :
        ns \in Namespaces, cn \in ContainerNames, iname \in IngressNames,
        ihost \in IngressHosts, tls \in BOOLEAN,
        cfg \in {c \in Configurations : ~c.ForceOnConflicts}}

\* callers that vary the ports, the labels and what the store holds
ReconcileScenarios ==
    {[options |-> [BaseOptions EXCEPT !.ports = ports, !.labels = labels,
                                      !.ingressHost = ihost],
      config |-> cfg, owner |-> owner] :
        ports \in SeqsUpTo(PortNumbers, MaxPorts), labels \in UserLabels,
        ihost \in IngressHosts, cfg \in Configurations,
        owner \in {Absent, OtherManager}}

\* callers that vary the annotation policy and the user's annotations
AnnotationScenarios ==
    {[options |-> [BaseOptions EXCEPT !.tls = tls, !.traefik = traefik,
                                      !.proxyHeaders = proxy, !.allowedHeaders = allowed,
                                      !.uploadLimit = limit, !.annotations = annot],
      config |-> [IngressRootDomain |-> "example.com",
                  FieldManagerName |-> FieldManagerName, ForceOnConflicts |-> FALSE],
      owner |-> Absent] :
        tls \in BOOLEAN, traefik \in BOOLEAN, proxy \in BOOLEAN, allowed \in Slices,
        limit \in UploadLimits, annot \in UserAnnotations}

Scenarios == HostScenarios \cup ReconcileScenarios \cup AnnotationScenarios

----------------------------------------------------------------------------
(* The state machine: a caller holding one options object calls the facade *)

Init ==
    \E s \in Scenarios :
        /\ options = s.options
        /\ original = s.options
        /\ appConfig = s.config
        /\ store = [n \in ContainerNames |->
                       IF n = s.options.containerName THEN s.owner ELSE Absent]
        /\ last = Outcome("none", store, <<>>)

\* the caller's memory after a call that ran on its options object
Written(out) ==
    IF out.allowedHeaders = <<>> THEN options
    ELSE [options EXCEPT !.allowedHeaders = out.allowedHeaders[1]]

DeployIngress ==
    /\ ~last.panicked
    /\ \E optsPtr \in {<<>>, <<options>>}, acquireFails \in BOOLEAN, fault \in Faults :
          LET out == deployIngress(optsPtr, appConfig, store, acquireFails, fault)
          IN  /\ last' = out
              /\ store' = out.store
              /\ options' = Written(out)
    /\ UNCHANGED <<appConfig, original>>

DeleteIngress ==
    /\ ~last.panicked
    /\ \E acquireFails \in BOOLEAN, fault \in Faults :
          LET out == deleteIngress(options.namespace, options.containerName,
                                   appConfig, store, acquireFails, fault)
          IN  /\ last' = out
              /\ store' = out.store
    /\ UNCHANGED <<appConfig, options, original>>

Next == DeployIngress \/ DeleteIngress

Spec == Init /\ [][Next]_vars

----------------------------------------------------------------------------
(* Properties *)

Deployed == last.op = "deploy" /\ last.built # <<>>
Manifest == last.built[1]
Rule == Manifest.spec.rules[1]
AcquisitionFailed == last.acquired # <<>> /\ last.acquired[1] # NoError
RemoteCalls == Len(last.applyCalls) + Len(last.deleteCalls)

\* C1: whenever client acquisition fails, deployIngress and deleteIngress return
\* that failure as an error value: no panic, and no Apply or Delete is invoked.
C1_AcquisitionFailureIsReturned ==
    AcquisitionFailed =>
        /\ ~last.panicked
        /\ last.ret = last.acquired[1]
        /\ RemoteCalls = 0

\* C2: a deployIngress call on options with empty ports, or with neither an
\* ingressHost nor a configured root domain, returns a configuration error,
\* builds no manifest, and makes no remote call: no client acquisition, no Apply.
C2_ConfigErrorMakesNoRemoteCall ==
    (/\ last.op = "deploy"
     /\ last.ret # ErrNilOptions
     /\ \/ Len(options.ports) = 0
        \/ options.ingressHost = "" /\ appConfig.IngressRootDomain = "")
    => /\ last.ret \in {ErrEmptyPorts, ErrNoDomain}
       /\ last.built = <<>>
       /\ last.acquired = <<>>
       /\ last.applyCalls = <<>>

\* C3: a call invokes Apply or Delete at most once; when the store returns an
\* error (conflict, not-found or any other) the call does not panic and returns
\* that very error; NotFound is returned exactly when Delete reported it.
C3_RemoteErrorSurfacedOnce ==
    /\ RemoteCalls <= 1
    /\ Len(last.remoteErr) = RemoteCalls
    /\ \A i \in 1..Len(last.remoteErr) :
          last.remoteErr[i] # NoError =>
              ~last.panicked /\ last.ret = last.remoteErr[i]
    /\ last.ret = ErrNotFound <=>
          (last.op = "delete" /\ last.remoteErr = <<ErrNotFound>>)
    /\ last.ret = ErrConflict <=>
          (last.op = "deploy" /\ last.remoteErr = <<ErrConflict>>)

C3_Witness ==
    /\ last.op = "deploy"
    /\ ~appConfig.ForceOnConflicts
    /\ last.remoteErr = <<ErrConflict>>
    /\ Len(last.applyCalls) = 1

\* C4: the host of the manifest's single rule is ingressName.root when
\* ingressName is set and containerName.namespace.root otherwise, root being
\* ingressHost when that is set and the configured root domain otherwise.
C4_ResolvedHost ==
    Deployed =>
        LET root == IF options.ingressHost # "" THEN options.ingressHost
                    ELSE appConfig.IngressRootDomain
        IN  /\ Len(Manifest.spec.rules) = 1
            /\ root # ""
            /\ options.ingressName # "" =>
                  Rule.host = options.ingressName \o "." \o root
            /\ options.ingressName = "" =>
                  Rule.host = options.containerName \o "." \o options.namespace \o "." \o root

C4_Witness ==
    /\ Deployed
    /\ options.ingressName = ""
    /\ options.ingressHost # ""
    /\ appConfig.IngressRootDomain # ""
    /\ Rule.host = "api.dev.apps.example.com"

\* C5 as stated: the manifest submitted to Apply carries name = containerName
\* and namespace = the intent's namespace, and one rule with path "/" whose
\* backend is the service containerName at port ports[0].
C5_ManifestCarriesNamespace ==
    \A i \in 1..Len(last.applyCalls) :
        LET m == last.applyCalls[i].manifest
        IN  /\ m.name = <<options.containerName>>
            /\ m.namespace = <<options.namespace>>
            /\ Len(m.spec.rules) = 1
            /\ Len(m.spec.rules[1].paths) = 1
            /\ m.spec.rules[1].paths[1].path = "/"
            /\ m.spec.rules[1].paths[1].serviceName = options.containerName
            /\ m.spec.rules[1].paths[1].servicePort = options.ports[1]

\* C5 amended: the manifest submitted to Apply carries name = containerName and
\* no namespace of its own, the Apply being addressed to the intent's namespace
\* through the namespaced client; it has one rule with one path "/" whose
\* backend is the service containerName at port ports[0], its only port.
C5_ManifestIdentityAndBackend ==
    \A i \in 1..Len(last.applyCalls) :
        LET m == last.applyCalls[i].manifest
        IN  /\ m.name = <<options.containerName>>
            /\ m.namespace = <<>>
            /\ last.applyCalls[i].namespace = options.namespace
            /\ Len(m.spec.rules) = 1
            /\ Len(m.spec.rules[1].paths) = 1
            /\ m.spec.rules[1].paths[1].path = "/"
            /\ m.spec.rules[1].paths[1].serviceName = options.containerName
            /\ m.spec.rules[1].paths[1].servicePort = options.ports[1]

C5_Witness ==
    /\ Len(last.applyCalls) = 1
    /\ Len(options.ports) = 2
    /\ options.ports[1] # options.ports[2]
    /\ last.applyCalls[1].manifest.spec.rules[1].paths[1].servicePort = options.ports[1]

\* C6: for either flavor the manifest's annotations are the generated set
\* overlaid by the user's mapping: every user key carries the user's value,
\* every other generated key its generated value, and there are no other keys.
C6_UserAnnotationsOverlay ==
    Deployed =>
        LET generated == last.generated[1]
        IN  /\ DOMAIN Manifest.annotations = DOMAIN generated \cup DOMAIN options.annotations
            /\ \A k \in DOMAIN options.annotations :
                  Manifest.annotations[k] = options.annotations[k]
            /\ \A k \in DOMAIN generated \ DOMAIN options.annotations :
                  Manifest.annotations[k] = generated[k]

C6_Witness ==
    /\ Deployed
    /\ options.traefik /\ options.tls
    /\ "cert-manager.io/cluster-issuer" \in DOMAIN options.annotations
    /\ last.generated[1]["cert-manager.io/cluster-issuer"] = clusterIssuerDefault
    /\ Manifest.annotations["cert-manager.io/cluster-issuer"] = "letsencrypt-staging"

NginxTlsProxy == Deployed /\ ~options.traefik /\ options.tls /\ options.proxyHeaders

CorsAndBuffering(generated) ==
    /\ generated["nginx.ingress.kubernetes.io/cors-allow-headers"]
          = Join(Elems(original.allowedHeaders) \o extraHeaders, ", ")
    /\ Elems(original.allowedHeaders) = <<"X-Custom">> =>
          generated["nginx.ingress.kubernetes.io/cors-allow-headers"]
             = "X-Custom, X-Forwarded-For, X-Forwarded-Host, X-Forwarded-Server, X-Real-IP, X-Requested-With"
    /\ generated["nginx.ingress.kubernetes.io/enable-cors"] = "true"
    /\ generated["nginx.ingress.kubernetes.io/proxy-buffering"] = "on"
    /\ generated["nginx.ingress.kubernetes.io/proxy-buffer-size"] = "256k"

\* C7 as stated: nginx flavor, TLS on, proxyHeaders on: the CORS-headers
\* annotation is the allowedHeaders followed by the five forwarding headers,
\* joined with ", ", and the buffering and body-size annotations are present.
C7_BodySizeAlwaysPresent ==
    NginxTlsProxy =>
        /\ CorsAndBuffering(last.generated[1])
        /\ "nginx.ingress.kubernetes.io/proxy-body-size" \in DOMAIN last.generated[1]

\* C7 amended: nginx flavor, TLS on, proxyHeaders on: the CORS-headers
\* annotation is the allowedHeaders in order followed by the five forwarding
\* headers, joined with ", "; enable-cors, proxy-buffering and
\* proxy-buffer-size are present with their fixed values; the body-size
\* annotation is present exactly when uploadLimit is non-empty, and then
\* carries uploadLimit.
C7_CorsHeadersAndBodySize ==
    NginxTlsProxy =>
        /\ CorsAndBuffering(last.generated[1])
        /\ "nginx.ingress.kubernetes.io/proxy-body-size" \in DOMAIN last.generated[1]
              <=> options.uploadLimit # ""
        /\ options.uploadLimit # "" =>
              last.generated[1]["nginx.ingress.kubernetes.io/proxy-body-size"] = options.uploadLimit

C7_Witness ==
    /\ NginxTlsProxy
    /\ Elems(original.allowedHeaders) = <<"Authorization", "X-Custom">>
    /\ options.uploadLimit = "16m"
    /\ last.generated[1]["nginx.ingress.kubernetes.io/cors-allow-headers"]
          = "Authorization, X-Custom, X-Forwarded-For, X-Forwarded-Host, X-Forwarded-Server, X-Real-IP, X-Requested-With"

\* C8: the manifest has a TLS block exactly when the intent's tls flag is set;
\* the block's hosts are exactly the rule's host and its secret name is
\* containerName-tls.
C8_TlsBlock ==
    Deployed =>
        /\ Manifest.spec.tls # <<>> <=> options.tls
        /\ options.tls =>
              /\ Len(Manifest.spec.tls) = 1
              /\ Manifest.spec.tls[1].hosts = <<Rule.host>>
              /\ Manifest.spec.tls[1].secretName = options.containerName \o "-tls"
        /\ \A i \in 1..Len(last.applyCalls) : last.applyCalls[i].manifest = Manifest

C8_Witness ==
    /\ Deployed
    /\ options.tls
    /\ Len(last.applyCalls) = 1
    /\ last.applyCalls[1].manifest.spec.tls
          = <<[hosts |-> <<"pub.example.com">>, secretName |-> "api-tls"]>>

\* C9: traefik flavor with TLS off generates exactly the class marker and the
\* web entrypoint, whatever proxyHeaders, allowedHeaders and uploadLimit are.
C9_TraefikPlainSet ==
    (Deployed /\ options.traefik /\ ~options.tls) =>
        /\ DOMAIN last.generated[1]
              = {"kubernetes.io/ingress.class", "traefik.ingress.kubernetes.io/router.entrypoints"}
        /\ last.generated[1]["kubernetes.io/ingress.class"] = "traefik"
        /\ last.generated[1]["traefik.ingress.kubernetes.io/router.entrypoints"] = "web"

C9_Witness ==
    /\ Deployed /\ options.traefik /\ ~options.tls
    /\ options.proxyHeaders
    /\ options.allowedHeaders.len > 0
    /\ options.uploadLimit # ""
    /\ Cardinality(DOMAIN last.generated[1]) = 2

\* C10: calls leave the caller's options as they were: annotations, labels and
\* allowedHeaders, the backing array beyond the slice's length included.
C10_OptionsUnchanged ==
    /\ options.annotations = original.annotations
    /\ options.labels = original.labels
    /\ options.allowedHeaders = original.allowedHeaders

====
